---- MODULE Spec2Model ----
(***************************************************************************)
(* IssueMainService (src/vs/platform/issue/electron-main/                  *)
(* issueMainService.ts): the three auxiliary windows of the main process   *)
(* (issue reporter, process explorer, embedded browser "bridge" window),   *)
(* their parent windows, the ipcMain listener table and the command        *)
(* router, as a state machine with one action per handler.                 *)
(*                                                                         *)
(* Electron, as the handlers see it:                                       *)
(*  - a BrowserWindow is "open" until its 'close' event, "closing" from    *)
(*    then until its 'closed' event, and "destroyed" after; close() emits  *)
(*    'close' synchronously and the window is torn down asynchronously;    *)
(*    destroy() emits no 'close';                                          *)
(*  - any method of a destroyed BrowserWindow throws ("Object has been     *)
(*    destroyed"); isDestroyed() is the one exception;                     *)
(*  - an EventEmitter runs its listeners in registration order and an      *)
(*    exception thrown by one of them skips the ones after it;             *)
(*  - a Promise settles once: resolve/reject after that change nothing,    *)
(*    and an exception thrown by the executor rejects it.                  *)
(***************************************************************************)
EXTENDS Integers, Sequences, FiniteSets, TLC

\* ---------------------------------------------------------------- bounds
\* Child windows created over a run (all roles together), under Spec,
\* SpecDiag and SpecShared.
MaxWindows == 2
\* Child windows created over a run under SpecSessions.
MaxSessionWindows == 2
\* Process explorer windows created over a run under SpecListProcesses.
MaxListWindows == 1
\* Bridge windows created over a run under SpecBrowser.
MaxBrowserWindows == 1
\* Bridge windows created over a run under SpecNoEvents.
MaxNoEventsWindows == 1
\* Pairs of issue reporter and process explorer sessions created over a run
\* under SpecTwins.
MaxTwinPairs == 2
\* Bridge windows created over a run under SpecRace.
MaxRaceWindows == 3
\* Async handlers suspended at an await (a dialog, a collaborator) at one time.
MaxDialogs == 1
\* Entries kept in a window's call log.
MaxLog == 4

\* ---------------------------------------------------------------- values
Parents == {"P1", "P2"}
\* A null BrowserWindow reference held in a *ParentWindow field.
Null == "null"
\* A null child-window slot; child windows are numbered from 1.
NoWin == 0

IssueReporter == "issueReporter"
ProcessExplorer == "processExplorer"
Browser == "browser"
Roles == {IssueReporter, ProcessExplorer, Browser}

WorkbenchCommandChannel == "vscode:workbenchCommand"
CloseIssueReporterChannel == "vscode:closeIssueReporter"
CloseProcessExplorerChannel == "vscode:closeProcessExplorer"
CloseBrowserWindowChannel == "vscode:closeBrowserWindow"
ConfirmCloseChannel == "vscode:issueReporterConfirmClose"
ListProcessesChannel == "vscode:listProcesses"
ClipboardChannel == "vscode:issueReporterClipboard"
CertReadyChannel == "cert-ready"

ServiceChannels ==
  {WorkbenchCommandChannel, CloseIssueReporterChannel, CloseProcessExplorerChannel,
   CloseBrowserWindowChannel, ConfirmCloseChannel, ListProcessesChannel, ClipboardChannel}
Channels == ServiceChannels \cup {CertReadyChannel}

\* The listener IssueMainService.registerListeners installs on a channel.
ServiceListener == [kind |-> "service", sess |-> 0, command |-> ""]
\* The listener openBrowserWindow installs for one (channel, command) pair.
BridgeListener(w, command) == [kind |-> "bridge", sess |-> w, command |-> command]

\* config['events'] entries: a {channel, command} pair, an entry lacking its
\* command, and a null entry.
Pair(ch, cmd) == [kind |-> "pair", channel |-> ch, command |-> cmd]
PartialEntry == [kind |-> "partial", channel |-> CertReadyChannel, command |-> ""]
NullEntry == [kind |-> "null", channel |-> "", command |-> ""]

Config(winId, events) == [winId |-> winId, events |-> events, hasData |-> TRUE]
\* A config object without its 'data'.
NoConfig == [winId |-> "", events |-> <<>>, hasData |-> FALSE]

\* The config objects a caller passes: the three kinds of winId the code tells
\* apart ('certificate', 'addEmulator', any other) and the shapes of
\* config['events'] (absent or empty, pairs, an entry lacking its command, a
\* null entry, a pair on a channel the service itself listens on).
BridgeConfigs ==
  { Config("certificate", << Pair(CertReadyChannel, "login") >>),
    Config("other", << Pair(CertReadyChannel, "certificate") >>),
    Config("addEmulator", <<>>),
    Config("other", << PartialEntry >>),
    Config("other", << NullEntry >>),
    Config("other", << Pair(WorkbenchCommandChannel, "login"),
                       Pair(CertReadyChannel, "login") >>),
    NoConfig }

\* The `from` values a workbench command can carry.
FromValues == {IssueReporter, ProcessExplorer, "genericBridge", "unknown-role"}

VARIABLES
  windows,                      \* every child window created, by id
  parentState,                  \* each parent window: open, closing, destroyed
  issueReporterWindow,
  issueReporterParentWindow,
  processExplorerWindow,
  processExplorerParentWindow,
  browserWindow,                \* _browserWindow
  browserParentWindow,          \* _browserParentWindow
  ipcMain,                      \* channel -> listeners, in registration order
  suspended,                    \* async handlers suspended at an await, oldest first
  obs                           \* what the last handler did

vars ==
  << windows, parentState, issueReporterWindow, issueReporterParentWindow,
     processExplorerWindow, processExplorerParentWindow, browserWindow,
     browserParentWindow, ipcMain, suspended, obs >>

\* ------------------------------------------------------------ machine state
\* The service's fields as one record, so that a handler is a function of it.
Cur ==
  [ windows |-> windows,
    issueReporterWindow |-> issueReporterWindow,
    issueReporterParentWindow |-> issueReporterParentWindow,
    processExplorerWindow |-> processExplorerWindow,
    processExplorerParentWindow |-> processExplorerParentWindow,
    browserWindow |-> browserWindow,
    browserParentWindow |-> browserParentWindow,
    ipcMain |-> ipcMain,
    threw |-> FALSE,              \* an exception left the handler
    resolved |-> FALSE,           \* resolve(...) was called
    sendTo |-> "none" ]           \* the receiver of webContents.send, if called

Commit(m) ==
  /\ windows' = m.windows
  /\ issueReporterWindow' = m.issueReporterWindow
  /\ issueReporterParentWindow' = m.issueReporterParentWindow
  /\ processExplorerWindow' = m.processExplorerWindow
  /\ processExplorerParentWindow' = m.processExplorerParentWindow
  /\ browserWindow' = m.browserWindow
  /\ browserParentWindow' = m.browserParentWindow
  /\ ipcMain' = m.ipcMain

\* ------------------------------------------------------- window placement
\* A Display's bounds, a window's bounds, a screen point.
Rect(x, y, width, height) == [x |-> x, y |-> y, width |-> width, height |-> height]
Point(x, y) == [x |-> x, y |-> y]

\* An IWindowState. x and y are halves of pixels in the code (a display of odd
\* width puts the centre on a half pixel): x2 and y2 are twice x and y.
WindowState(x2, y2, width, height) == [x2 |-> x2, y2 |-> y2, width |-> width, height |-> height]

\* Lines 470-477: the default size, centred on the display.
CenterOn(d, width, height) ==
  WindowState(2 * d.x + d.width - width, 2 * d.y + d.height - height, width, height)

\* The corrections of x and y without those of the width and the height.
KeepOnDisplayNoResize(d, st) ==
  IF d.width > 0 /\ d.height > 0
    THEN LET xa == IF st.x2 < 2 * d.x THEN 2 * d.x ELSE st.x2
             ya == IF st.y2 < 2 * d.y THEN 2 * d.y ELSE st.y2
         IN  WindowState(xa, ya, st.width, st.height)
    ELSE st

\* Lines 479-503: the six corrections, in the order of the code, made only
\* for a display that reports positive bounds.
KeepOnDisplay(d, st) ==
  IF d.width > 0 /\ d.height > 0
    THEN LET xa == IF st.x2 < 2 * d.x THEN 2 * d.x ELSE st.x2
             ya == IF st.y2 < 2 * d.y THEN 2 * d.y ELSE st.y2
             xb == IF xa > 2 * (d.x + d.width) THEN 2 * d.x ELSE xa
             yb == IF ya > 2 * (d.y + d.height) THEN 2 * d.y ELSE ya
         IN  WindowState(xb, yb,
                         IF st.width > d.width THEN d.width ELSE st.width,
                         IF st.height > d.height THEN d.height ELSE st.height)
    ELSE st

\* The distance, squared, from point pt to rectangle d.
Dist2(d, pt) ==
  LET dx == IF pt.x < d.x THEN d.x - pt.x
            ELSE IF pt.x > d.x + d.width THEN pt.x - (d.x + d.width) ELSE 0
      dy == IF pt.y < d.y THEN d.y - pt.y
            ELSE IF pt.y > d.y + d.height THEN pt.y - (d.y + d.height) ELSE 0
  IN  dx * dx + dy * dy

\* The area two rectangles share.
Overlap(a, b) ==
  LET lo(u, v) == IF u < v THEN u ELSE v
      hi(u, v) == IF u > v THEN u ELSE v
      w == lo(a.x + a.width, b.x + b.width) - hi(a.x, b.x)
      h == lo(a.y + a.height, b.y + b.height) - hi(a.y, b.y)
  IN  IF w > 0 /\ h > 0 THEN w * h ELSE 0

\* screen.getDisplayNearestPoint(point): the first display at the least
\* distance from the point.
DisplayNearestPoint(displays, pt) ==
  displays[CHOOSE i \in DOMAIN displays :
             \A j \in DOMAIN displays :
               \/ Dist2(displays[i], pt) < Dist2(displays[j], pt)
               \/ (Dist2(displays[i], pt) = Dist2(displays[j], pt) /\ i <= j)]

\* screen.getDisplayMatching(rect): the first display that shares the most
\* with the rectangle.
DisplayMatching(displays, r) ==
  displays[CHOOSE i \in DOMAIN displays :
             \A j \in DOMAIN displays :
               \/ Overlap(displays[i], r) > Overlap(displays[j], r)
               \/ (Overlap(displays[i], r) = Overlap(displays[j], r) /\ i <= j)]

\* A placement that takes the parent window's bounds for the display.
DisplayUnderParent(displays, isMacintosh, cursor, parentBounds) == parentBounds

\* Lines 442-468: the display the new window opens on. The parent window is
\* never null at the three call sites, and Electron's two lookups always
\* return a display, so the fallback of line 466 is never taken.
DisplayToUse(displays, isMacintosh, cursor, parentBounds) ==
  IF Len(displays) = 1
    THEN displays[1]
    ELSE IF isMacintosh
           THEN DisplayNearestPoint(displays, cursor)
           ELSE DisplayMatching(displays, parentBounds)

\* getWindowPosition(parentWindow, defaultWidth, defaultHeight).
GetWindowPositionImpl(displays, isMacintosh, cursor, parentBounds, width, height) ==
  LET d == DisplayToUse(displays, isMacintosh, cursor, parentBounds) IN
  KeepOnDisplay(d, CenterOn(d, width, height))

\* What a call of getWindowPosition was given and what it returned.
NoPosition ==
  [ displays |-> <<>>, isMacintosh |-> FALSE, cursor |-> Point(0, 0),
    parentBounds |-> Rect(0, 0, 0, 0), width |-> 0, height |-> 0,
    display |-> Rect(0, 0, 0, 0), state |-> WindowState(0, 0, 0, 0) ]

NoObs ==
  [ op |-> "none", from |-> "", win |-> NoWin, created |-> NoWin, focused |-> NoWin,
    minimized |-> FALSE, restored |-> FALSE, request |-> "none", outcome |-> "none",
    to |-> Null, id |-> "", position |-> NoPosition,
    destroyed |-> NoWin, reply |-> "none", processes |-> <<>>, logged |-> FALSE,
    steps |-> <<>> ]

\* The event loop runs one handler at a time: the next event is dispatched
\* once what the last handler sent has gone out.
Idle == obs = NoObs

\* A new BrowserWindow of `role`, created for parent `p`.
NewWindow(role, p, config) ==
  [ role |-> role,
    parent |-> p,
    state |-> "open",
    disposed |-> FALSE,           \* DisposableStore._isDisposed
    log |-> <<>>,                 \* close() calls and channel disposals, in order
    winId |-> config.winId,
    promise |-> IF role = Browser THEN "pending" ELSE "none",
    closedListeners |-> <<>>,     \* 'closed' listeners of a bridge window
    parentListener |-> role # Browser,
    ready |-> IF role = Browser THEN "waiting" ELSE "done" ]

IsDestroyed(m, w) == m.windows[w].state = "destroyed"

Logged(m, w, e) ==
  [m EXCEPT !.windows[w].log = IF Len(@) < MaxLog THEN Append(@, e) ELSE @]

\* DisposableStore.dispose(): disposes what it holds (the IPC object URL) the
\* first time, and nothing after.
Dispose(m, w) ==
  IF m.windows[w].disposed
    THEN m
    ELSE Logged([m EXCEPT !.windows[w].disposed = TRUE], w, "dispose")

\* resolve(...) / reject() of the promise of bridge session w.
Settle(m, w, how) ==
  IF m.windows[w].promise = "pending" THEN [m EXCEPT !.windows[w].promise = how] ELSE m

RemoveAllListeners(m, ch) == [m EXCEPT !.ipcMain[ch] = <<>>]

\* ------------------------------------------------------- window lifecycle
\* this.issueReporterWindow.on('close', ...) of session w.
ReporterOnClose(m, w) == Dispose([m EXCEPT !.issueReporterWindow = NoWin], w)

\* this.processExplorerWindow.on('close', ...) of session w.
ProcessExplorerOnClose(m, w) == Dispose([m EXCEPT !.processExplorerWindow = NoWin], w)

\* The 'close' event of child window w: its listeners run, the teardown starts.
EmitClose(m, w) ==
  LET m1 == [m EXCEPT !.windows[w].state = "closing"] IN
  CASE m.windows[w].role = IssueReporter -> ReporterOnClose(m1, w)
    [] m.windows[w].role = ProcessExplorer -> ProcessExplorerOnClose(m1, w)
    [] OTHER -> m1

\* BrowserWindow.close() as the handlers call it: it throws on a destroyed
\* window and emits 'close'; on a window already closing it only emits
\* 'close' once more.
WindowClose(m, w) ==
  IF IsDestroyed(m, w)
    THEN [m EXCEPT !.threw = TRUE]
    ELSE IF m.windows[w].state = "closing"
    THEN EmitClose(m, w)
    ELSE EmitClose(Logged(m, w, "close"), w)

\* this._browserWindow.on('closed', ...) of session w, registered for channel ch
\* ("" for the listener of the branch without events).
BrowserOnClosed(m, w, ch) ==
  LET m1 == IF ch # "" THEN RemoveAllListeners(m, ch) ELSE m IN
  Settle([m1 EXCEPT !.browserWindow = NoWin], w, "rejected")

RECURSIVE RunClosedListeners(_, _, _)
RunClosedListeners(m, w, i) ==
  IF i > Len(m.windows[w].closedListeners)
    THEN m
    ELSE RunClosedListeners(BrowserOnClosed(m, w, m.windows[w].closedListeners[i]), w, i + 1)

\* The 'closed' event of child window w: the window is gone, its listeners run.
\* A 'ready-to-show' that has not come by then never comes.
EmitClosed(m, w) ==
  RunClosedListeners(
    [m EXCEPT !.windows[w].state = "destroyed",
              !.windows[w].ready = IF @ = "waiting" THEN "done" ELSE @],
    w, 1)

\* BrowserWindow.destroy(): no 'close' event, 'closed' only.
WindowDestroy(m, w) ==
  IF IsDestroyed(m, w)
    THEN [m EXCEPT !.threw = TRUE]
    ELSE EmitClosed(Logged(m, w, "destroy"), w)

\* ------------------------------------------------ parent-window listeners
\* this.issueReporterParentWindow.on('closed', ...) of session s.
ReporterParentOnClosed(m, s) ==
  IF m.issueReporterWindow = NoWin
    THEN m
    ELSE LET m1 == WindowClose(m, m.issueReporterWindow) IN
         IF m1.threw THEN m1 ELSE Dispose([m1 EXCEPT !.issueReporterWindow = NoWin], s)

\* this.processExplorerParentWindow.on('close', ...) of session s.
ProcessExplorerParentOnClose(m, s) ==
  IF m.processExplorerWindow = NoWin
    THEN m
    ELSE LET m1 == WindowClose(m, m.processExplorerWindow) IN
         IF m1.threw THEN m1 ELSE Dispose([m1 EXCEPT !.processExplorerWindow = NoWin], s)

\* this._browserParentWindow.on('closed', ...) of session s.
BrowserParentOnClosed(m, s) ==
  IF m.browserWindow = NoWin
    THEN m
    ELSE LET m1 == WindowClose(m, m.browserWindow) IN
         IF m1.threw
           THEN m1
           ELSE Settle([m1 EXCEPT !.browserWindow = NoWin], s, "rejected")

\* Whether session s registered a listener for event e on parent window p.
HasParentListener(m, s, p, e) ==
  /\ m.windows[s].parent = p
  /\ m.windows[s].parentListener
  /\ e = (IF m.windows[s].role = ProcessExplorer THEN "close" ELSE "closed")

ParentListener(m, s) ==
  CASE m.windows[s].role = IssueReporter -> ReporterParentOnClosed(m, s)
    [] m.windows[s].role = ProcessExplorer -> ProcessExplorerParentOnClose(m, s)
    [] OTHER -> BrowserParentOnClosed(m, s)

\* Event e of parent window p: the sessions' listeners in registration order,
\* up to the first one that throws.
RECURSIVE EmitParent(_, _, _, _)
EmitParent(m, p, e, s) ==
  IF s > Len(m.windows) \/ m.threw
    THEN m
    ELSE EmitParent(IF HasParentListener(m, s, p, e) THEN ParentListener(m, s) ELSE m,
                    p, e, s + 1)

\* ------------------------------------------------------------ open requests
\* BrowserWindow.getFocusedWindow(): a window of the workbench, or null.
FocusedWindows == {p \in Parents : parentState[p] = "open"} \cup {Null}

\* An openReporter that goes on without a focused window, taking the first
\* workbench window for parent.
OpenReporterWithoutFocus(m, f) ==
  IF m.issueReporterWindow # NoWin
    THEN m
    ELSE LET p == IF f = Null THEN "P1" ELSE f IN
         [m EXCEPT !.issueReporterParentWindow = f,
                   !.windows = Append(@, NewWindow(IssueReporter, p, NoConfig)),
                   !.issueReporterWindow = Len(m.windows) + 1]

\* openReporter up to its last line.
OpenReporterImpl(m, f) ==
  IF m.issueReporterWindow # NoWin
    THEN m
    ELSE LET m1 == [m EXCEPT !.issueReporterParentWindow = f] IN
         IF f = Null
           THEN m1
           ELSE [m1 EXCEPT !.windows = Append(@, NewWindow(IssueReporter, f, NoConfig)),
                           !.issueReporterWindow = Len(m.windows) + 1]

\* openProcessExplorer up to its last line.
OpenProcessExplorerImpl(m, f) ==
  IF m.processExplorerWindow # NoWin
    THEN m
    ELSE LET m1 == [m EXCEPT !.processExplorerParentWindow = f] IN
         IF f = Null
           THEN m1
           ELSE [m1 EXCEPT !.windows = Append(@, NewWindow(ProcessExplorer, f, NoConfig)),
                           !.processExplorerWindow = Len(m.windows) + 1]

\* A session set-up that publishes the configuration before the window exists.
SetupPublishFirst(role) ==
  << "createIPCObjectUrl", "update", "createBrowserWindow", "loadURL", "onClose",
     IF role = ProcessExplorer THEN "onParentClose" ELSE "onParentClosed" >>

\* Lines 312-351 and 362-394: what openReporter and openProcessExplorer do to
\* set a session up, statement by statement: the IPC object URL is created in
\* the session's DisposableStore, the window is created with that URL in its
\* additionalArguments (line 416), the configuration is stored into the URL,
\* the page is loaded, and the two listeners are registered.
SetupSteps(role) ==
  << "createIPCObjectUrl", "createBrowserWindow", "update", "loadURL", "onClose",
     IF role = ProcessExplorer THEN "onParentClose" ELSE "onParentClosed" >>

\* What `slot?.focus()` does: nothing on null, throws on a destroyed window.
FocusOutcome(m, slot) ==
  IF slot = NoWin THEN "none" ELSE IF IsDestroyed(m, slot) THEN "objectDestroyed" ELSE "focused"

OpenReporter(f, min, max) ==
  /\ Idle
  /\ (issueReporterWindow = NoWin /\ f # Null) => Len(windows) < max
  /\ min => issueReporterWindow # NoWin /\ windows[issueReporterWindow].state = "open"
  /\ LET m == OpenReporterImpl(Cur, f) IN
       /\ Commit(m)
       /\ obs' = [NoObs EXCEPT
                    !.op = "openReporter",
                    !.minimized = min,
                    !.steps = IF Len(m.windows) > Len(windows)
                                THEN SetupSteps(IssueReporter) ELSE <<>>,
                    !.created = IF Len(m.windows) > Len(windows) THEN Len(m.windows) ELSE NoWin,
                    !.focused = IF FocusOutcome(m, m.issueReporterWindow) = "focused"
                                  THEN m.issueReporterWindow ELSE NoWin,
                    !.outcome = FocusOutcome(m, m.issueReporterWindow)]
  /\ UNCHANGED << parentState, suspended >>

OpenProcessExplorer(f, min, max) ==
  /\ Idle
  /\ (processExplorerWindow = NoWin /\ f # Null) => Len(windows) < max
  /\ min => processExplorerWindow # NoWin /\ windows[processExplorerWindow].state = "open"
  /\ LET m == OpenProcessExplorerImpl(Cur, f) IN
       /\ Commit(m)
       /\ obs' = [NoObs EXCEPT
                    !.op = "openProcessExplorer",
                    !.minimized = min,
                    !.steps = IF Len(m.windows) > Len(windows)
                                THEN SetupSteps(ProcessExplorer) ELSE <<>>,
                    !.created = IF Len(m.windows) > Len(windows) THEN Len(m.windows) ELSE NoWin,
                    !.focused = IF FocusOutcome(m, m.processExplorerWindow) = "focused"
                                  THEN m.processExplorerWindow ELSE NoWin,
                    !.outcome = FocusOutcome(m, m.processExplorerWindow)]
  /\ UNCHANGED << parentState, suspended >>

\* The loop over config['events'] of openBrowserWindow, from entry i on, for
\* the new window w: a null entry throws, an entry lacking its channel or
\* command is skipped, a pair replaces the channel's listeners by its own and
\* adds one more 'closed' listener to the window.
RECURSIVE RegisterEvents(_, _, _, _)
RegisterEvents(m, w, events, i) ==
  IF i > Len(events)
    THEN m
    ELSE LET e == events[i] IN
         CASE e.kind = "null" -> [m EXCEPT !.threw = TRUE]
           [] e.kind = "partial" -> RegisterEvents(m, w, events, i + 1)
           [] OTHER ->
                RegisterEvents(
                  [m EXCEPT !.ipcMain[e.channel] = << BridgeListener(w, e.command) >>,
                            !.windows[w].closedListeners = Append(@, e.channel)],
                  w, events, i + 1)

\* The listeners openBrowserWindow registers on the window it just created.
RegisterBrowserListeners(m, w, events) ==
  LET m1 == IF Len(events) > 0
              THEN RegisterEvents(m, w, events, 1)
              ELSE [m EXCEPT !.windows[w].closedListeners = << "" >>] IN
  IF m1.threw THEN m1 ELSE [m1 EXCEPT !.windows[w].parentListener = TRUE]

\* The executor of the promise openBrowserWindow returns. `request` is what
\* became of that promise when no session owns it ("session": the promise of
\* the window just created).
OpenBrowserWindowImpl(m, f, args, min) ==
  IF m.browserWindow # NoWin /\ ~IsDestroyed(m, m.browserWindow)
    THEN [ m |-> m,
           restored |-> min,
           focused |-> m.browserWindow,
           request |-> "rejected" ]
    ELSE IF Len(args) = 0
    THEN [ m |-> m, restored |-> FALSE, focused |-> NoWin, request |-> "rejected" ]
    ELSE IF m.browserWindow # NoWin
    \* the slot holds a destroyed window: nothing is created, focus() throws
    THEN [ m |-> m, restored |-> FALSE, focused |-> NoWin, request |-> "rejected" ]
    ELSE LET m1 == [m EXCEPT !.browserParentWindow = f]
             w  == Len(m.windows) + 1 IN
         IF f = Null
           THEN [ m |-> m1, restored |-> FALSE, focused |-> NoWin, request |-> "pending" ]
           ELSE IF ~args[1].hasData
           \* config['data'].theme throws before the window is created
           THEN [ m |-> m1, restored |-> FALSE, focused |-> NoWin, request |-> "rejected" ]
           ELSE LET m2 == [m1 EXCEPT
                             !.windows = Append(@, NewWindow(Browser, f, args[1])),
                             !.browserWindow = w]
                    m3 == RegisterBrowserListeners(m2, w, args[1].events) IN
                IF m3.threw
                  THEN [ m |-> [Settle(m3, w, "rejected") EXCEPT !.threw = FALSE],
                         restored |-> FALSE, focused |-> NoWin, request |-> "session" ]
                  ELSE [ m |-> m3, restored |-> FALSE, focused |-> w, request |-> "session" ]

BrowserArgs == { <<>> } \cup { << c >> : c \in BridgeConfigs }

\* Whether this call of openBrowserWindow creates a window.
CreatesBrowserWindow(f, args) ==
  /\ browserWindow = NoWin
  /\ Len(args) > 0
  /\ f # Null
  /\ args[1].hasData

OpenBrowserWindow(f, args, min, max) ==
  /\ Idle
  /\ CreatesBrowserWindow(f, args) => Len(windows) < max
  /\ min => browserWindow # NoWin /\ windows[browserWindow].state # "destroyed"
  /\ LET r == OpenBrowserWindowImpl(Cur, f, args, min) IN
       /\ Commit(r.m)
       /\ obs' = [NoObs EXCEPT
                    !.op = "openBrowserWindow",
                    !.created = IF Len(r.m.windows) > Len(windows) THEN Len(r.m.windows) ELSE NoWin,
                    !.focused = r.focused,
                    !.minimized = min,
                    !.restored = r.restored,
                    !.request = r.request]
  /\ UNCHANGED << parentState, suspended >>

\* ------------------------------------------------- the bridge window's timers
\* this._browserWindow.once('ready-to-show', ...) of session w: show() and
\* setAlwaysOnTop(true) on whatever the slot holds, then the 100 ms timer.
ReadyToShowImpl(m, w) ==
  IF m.browserWindow # NoWin /\ IsDestroyed(m, m.browserWindow)
    THEN [m EXCEPT !.windows[w].ready = "done", !.threw = TRUE]
    ELSE [m EXCEPT !.windows[w].ready = "timer"]

ReadyToShow(w) ==
  /\ Idle
  /\ w \in 1..Len(windows)
  /\ windows[w].role = Browser
  /\ windows[w].state # "destroyed"
  /\ windows[w].ready = "waiting"
  /\ LET m == ReadyToShowImpl(Cur, w) IN
       /\ Commit(m)
       /\ obs' = [NoObs EXCEPT !.op = "readyToShow", !.win = w,
                               !.outcome = IF m.threw THEN "objectDestroyed" ELSE "none"]
  /\ UNCHANGED << parentState, suspended >>

\* A timer callback that resolves whatever config['winId'] is.
TimerResolvesAlways(m, w) ==
  LET m1 == [m EXCEPT !.windows[w].ready = "done"] IN
  IF m.browserWindow # NoWin /\ IsDestroyed(m, m.browserWindow)
    THEN [m1 EXCEPT !.threw = TRUE]
    ELSE Settle(m1, w, "resolved")

\* The setTimeout callback of session w: setAlwaysOnTop(false) on whatever the
\* slot holds, then resolve() when config['winId'] is 'addEmulator'.
TimerImpl(m, w) ==
  LET m1 == [m EXCEPT !.windows[w].ready = "done"] IN
  IF m.browserWindow # NoWin /\ IsDestroyed(m, m.browserWindow)
    THEN [m1 EXCEPT !.threw = TRUE]
    ELSE IF m.windows[w].winId = "addEmulator"
           THEN Settle(m1, w, "resolved")
           ELSE m1

TimerFires(w) ==
  /\ Idle
  /\ w \in 1..Len(windows)
  /\ windows[w].ready = "timer"
  /\ LET m == TimerImpl(Cur, w) IN
       /\ Commit(m)
       /\ obs' = [NoObs EXCEPT !.op = "timer", !.win = w,
                               !.outcome = IF m.threw THEN "objectDestroyed" ELSE "none"]
  /\ UNCHANGED << parentState, suspended >>

\* --------------------------------------------------------- ipcMain handlers
Installed(ch) == \E i \in 1..Len(ipcMain[ch]) : ipcMain[ch][i] = ServiceListener

\* What parentWindow.webContents.send('vscode:runAction', ...) does.
SendOutcome(pw) ==
  IF pw = Null THEN "dropped"
  ELSE IF parentState[pw] = "destroyed" THEN "objectDestroyed"
  ELSE "sent"

\* The switch of the 'vscode:workbenchCommand' handler: the parent window the
\* command goes to, or "throw" for the default branch.
RouteTarget(from) ==
  CASE from = IssueReporter -> issueReporterParentWindow
    [] from = ProcessExplorer -> processExplorerParentWindow
    [] OTHER -> "throw"

\* ipcMain.on('vscode:workbenchCommand', ...).
WorkbenchCommand(from) ==
  /\ Idle
  /\ Installed(WorkbenchCommandChannel)
  /\ obs' = [NoObs EXCEPT
               !.op = "workbenchCommand",
               !.from = from,
               !.id = "cmd",
               !.outcome = IF RouteTarget(from) = "throw"
                             THEN "unexpectedSource"
                             ELSE SendOutcome(RouteTarget(from)),
               !.to = IF RouteTarget(from) = "throw" THEN Null ELSE RouteTarget(from)]
  /\ UNCHANGED << windows, parentState, issueReporterWindow, issueReporterParentWindow,
                  processExplorerWindow, processExplorerParentWindow, browserWindow,
                  browserParentWindow, ipcMain, suspended >>

\* A listener that takes the pair's command, not config['winId'], for the
\* termination role.
BridgeListenerByCommand(m, l) ==
  IF l.command = "certificate"
    THEN [Settle(m, l.sess, "resolved") EXCEPT !.resolved = TRUE]
    ELSE [m EXCEPT !.sendTo = m.browserParentWindow,
                   !.threw = (SendOutcome(m.browserParentWindow) = "objectDestroyed")]

\* The listener openBrowserWindow installed for a pair, on a message: the
\* switch on config['winId'] of the session that installed it.
BridgeListenerImpl(m, l) ==
  IF m.windows[l.sess].winId = "certificate"
    THEN [Settle(m, l.sess, "resolved") EXCEPT !.resolved = TRUE]
    ELSE [m EXCEPT !.sendTo = m.browserParentWindow,
                   !.threw = (SendOutcome(m.browserParentWindow) = "objectDestroyed")]

\* A message on a channel that holds a listener of a bridge session.
BridgeMessage(ch) ==
  /\ Idle
  /\ Len(ipcMain[ch]) > 0
  /\ ipcMain[ch][1].kind = "bridge"
  /\ LET l == ipcMain[ch][1]
         m == BridgeListenerImpl(Cur, l) IN
       /\ Commit(m)
       /\ obs' = [NoObs EXCEPT
                    !.op = "bridgeMessage",
                    !.win = l.sess,
                    !.id = l.command,
                    !.from = "mouse",
                    !.outcome = CASE m.resolved -> "resolve"
                                  [] m.sendTo = "none" -> "none"
                                  [] OTHER -> SendOutcome(m.sendTo),
                    !.to = IF m.sendTo = "none" THEN Null ELSE m.sendTo]
  /\ UNCHANGED << parentState, suspended >>

\* What the handlers of the three close channels do with their slot.
CloseCommandImpl(m, slot) == IF slot = NoWin THEN m ELSE WindowClose(m, slot)

CloseObs(op, m) ==
  [NoObs EXCEPT !.op = op, !.outcome = IF m.threw THEN "objectDestroyed" ELSE "none"]

\* ipcMain.on('vscode:closeIssueReporter', ...).
CloseIssueReporter ==
  /\ Idle
  /\ Installed(CloseIssueReporterChannel)
  /\ issueReporterWindow # NoWin
  /\ LET m == CloseCommandImpl(Cur, issueReporterWindow) IN
       Commit(m) /\ obs' = CloseObs("closeIssueReporter", m)
  /\ UNCHANGED << parentState, suspended >>

\* ipcMain.on('vscode:closeProcessExplorer', ...).
CloseProcessExplorer ==
  /\ Idle
  /\ Installed(CloseProcessExplorerChannel)
  /\ processExplorerWindow # NoWin
  /\ LET m == CloseCommandImpl(Cur, processExplorerWindow) IN
       Commit(m) /\ obs' = CloseObs("closeProcessExplorer", m)
  /\ UNCHANGED << parentState, suspended >>

\* ipcMain.on('vscode:closeBrowserWindow', ...).
CloseBrowserWindow ==
  /\ Idle
  /\ Installed(CloseBrowserWindowChannel)
  /\ browserWindow # NoWin
  /\ LET m == CloseCommandImpl(Cur, browserWindow) IN
       Commit(m) /\ obs' = CloseObs("closeBrowserWindow", m)
  /\ UNCHANGED << parentState, suspended >>

\* An async handler suspended at an await: which handler, the issue reporter
\* window its dialog was opened on (NoWin for a handler without dialog), the
\* child window whose renderer sent the request, and what the handler holds.
Suspended(handler, owner, sender) ==
  [handler |-> handler, owner |-> owner, sender |-> sender, stage |-> "dialog",
   processes |-> <<>>]

\* The suspended handlers without the i-th, which resumes.
Resume(q, i) == [j \in 1..(Len(q) - 1) |-> IF j < i THEN q[j] ELSE q[j + 1]]

\* ipcMain.on('vscode:issueReporterConfirmClose', ...) up to its await: the
\* dialog is shown only when there is an issue reporter window.
ConfirmCloseRequest ==
  /\ Idle
  /\ Installed(ConfirmCloseChannel)
  /\ issueReporterWindow # NoWin
  /\ Len(suspended) < MaxDialogs
  /\ suspended' = Append(suspended, Suspended("confirmClose", issueReporterWindow,
                                               issueReporterWindow))
  /\ obs' = [NoObs EXCEPT !.op = "confirmCloseRequest"]
  /\ UNCHANGED << windows, parentState, issueReporterWindow, issueReporterParentWindow,
                  processExplorerWindow, processExplorerParentWindow, browserWindow,
                  browserParentWindow, ipcMain >>

\* The window a handler destroyed, if it destroyed one.
DestroyedBy(m) ==
  LET gone == {w \in DOMAIN windows :
                 windows[w].state # "destroyed" /\ m.windows[w].state = "destroyed"} IN
  IF gone = {} THEN NoWin ELSE CHOOSE w \in gone : TRUE

\* The same handler after its await, with the button the user chose.
ConfirmCloseReplyImpl(m, yes) ==
  IF yes /\ m.issueReporterWindow # NoWin
    THEN LET m1 == WindowDestroy(m, m.issueReporterWindow) IN
         IF m1.threw THEN m1 ELSE [m1 EXCEPT !.issueReporterWindow = NoWin]
    ELSE m

ConfirmCloseReply(yes) ==
  /\ Idle
  /\ \E i \in DOMAIN suspended :
       /\ suspended[i].handler = "confirmClose"
       /\ suspended' = Resume(suspended, i)
       /\ LET m == ConfirmCloseReplyImpl(Cur, yes) IN
            /\ Commit(m)
            /\ obs' = [CloseObs("confirmCloseReply", m) EXCEPT
                         !.win = suspended[i].owner,
                         !.destroyed = DestroyedBy(m)]
  /\ UNCHANGED parentState

\* safeSend(event, channel, ...): what happens to the reply for the renderer
\* of child window `sender`.
SafeSend(sender) == IF windows[sender].state = "destroyed" THEN "skipped" ELSE "sent"

\* ipcMain.on('vscode:issueReporterClipboard', ...) up to its await, on a
\* request of the renderer of child window `sender`: the dialog is shown only
\* when there is an issue reporter window.
ClipboardRequest(sender) ==
  /\ Idle
  /\ Installed(ClipboardChannel)
  /\ sender \in DOMAIN windows
  /\ windows[sender].role = IssueReporter
  /\ windows[sender].state # "destroyed"
  /\ issueReporterWindow # NoWin
  /\ Len(suspended) < MaxDialogs
  /\ suspended' = Append(suspended, Suspended("clipboard", issueReporterWindow, sender))
  /\ obs' = [NoObs EXCEPT !.op = "clipboardRequest", !.win = sender]
  /\ UNCHANGED << windows, parentState, issueReporterWindow, issueReporterParentWindow,
                  processExplorerWindow, processExplorerParentWindow, browserWindow,
                  browserParentWindow, ipcMain >>

\* The same handler after its await: safeSend of whether the first button was
\* chosen.
ClipboardReply(ok) ==
  /\ Idle
  /\ \E i \in DOMAIN suspended :
       /\ suspended[i].handler = "clipboard"
       /\ suspended' = Resume(suspended, i)
       /\ obs' = [NoObs EXCEPT
                    !.op = "clipboardReply",
                    !.win = suspended[i].sender,
                    !.id = IF ok THEN "true" ELSE "false",
                    !.reply = SafeSend(suspended[i].sender)]
  /\ UNCHANGED << windows, parentState, issueReporterWindow, issueReporterParentWindow,
                  processExplorerWindow, processExplorerParentWindow, browserWindow,
                  browserParentWindow, ipcMain >>

\* ------------------------------------------------------- vscode:listProcesses
\* What getRemoteDiagnostics resolves to: per remote an error, a process tree,
\* or diagnostics without processes.
RemoteDiagnostics ==
  { <<>>, << "remoteError" >>, << "remoteProcesses" >>, << "noProcesses" >>,
    << "remoteProcesses", "remoteError" >> }

\* Lines 74-88: what the forEach pushes onto `processes`.
RECURSIVE RemoteEntries(_)
RemoteEntries(remote) ==
  IF remote = <<>>
    THEN <<>>
    ELSE (IF Head(remote) = "noProcesses" THEN <<>> ELSE << Head(remote) >>)
           \o RemoteEntries(Tail(remote))

\* A handler that keeps nothing of what it gathered once an await throws.
ListProcessesAllOrNothing(h, ok, remote) ==
  CASE h.stage = "mainPid" ->
         IF ok THEN [h EXCEPT !.stage = "tree"] ELSE [h EXCEPT !.stage = "failedMainPid"]
    [] h.stage = "tree" ->
         IF ok THEN [h EXCEPT !.stage = "remote", !.processes = Append(@, "Local")]
               ELSE [h EXCEPT !.stage = "failedTree"]
    [] OTHER ->
         IF ok THEN [h EXCEPT !.stage = "done", !.processes = @ \o RemoteEntries(remote)]
               ELSE [h EXCEPT !.stage = "failedRemote", !.processes = <<>>]

\* The handler's next await returns (ok) or throws: the three awaits of the
\* try block, in order. A throw goes to the catch of line 89.
ListProcessesStep(h, ok, remote) ==
  CASE h.stage = "mainPid" ->
         IF ok THEN [h EXCEPT !.stage = "tree"] ELSE [h EXCEPT !.stage = "failedMainPid"]
    [] h.stage = "tree" ->
         IF ok THEN [h EXCEPT !.stage = "remote", !.processes = Append(@, "Local")]
               ELSE [h EXCEPT !.stage = "failedTree"]
    [] OTHER ->
         IF ok THEN [h EXCEPT !.stage = "done", !.processes = @ \o RemoteEntries(remote)]
               ELSE [h EXCEPT !.stage = "failedRemote"]

\* The handler has left its try block.
Finished(h) == h.stage \in {"done", "failedMainPid", "failedTree", "failedRemote"}

\* ipcMain.on('vscode:listProcesses', ...) up to its first await, on a request
\* of the renderer of child window `sender`.
ListProcessesRequest(sender) ==
  /\ Idle
  /\ Installed(ListProcessesChannel)
  /\ sender \in DOMAIN windows
  /\ windows[sender].state # "destroyed"
  /\ Len(suspended) < MaxDialogs
  /\ suspended' = Append(suspended,
                         [Suspended("listProcesses", NoWin, sender) EXCEPT !.stage = "mainPid"])
  /\ obs' = [NoObs EXCEPT !.op = "listProcessesRequest", !.win = sender]
  /\ UNCHANGED << windows, parentState, issueReporterWindow, issueReporterParentWindow,
                  processExplorerWindow, processExplorerParentWindow, browserWindow,
                  browserParentWindow, ipcMain >>

\* The same handler from one await to the next, or to its end: the catch logs
\* the failure, and safeSend replies with what was gathered.
ListProcessesResume(ok, remote) ==
  /\ Idle
  /\ \E i \in DOMAIN suspended :
       /\ suspended[i].handler = "listProcesses"
       /\ LET h == ListProcessesStep(suspended[i], ok, remote) IN
            IF Finished(h)
              THEN /\ suspended' = Resume(suspended, i)
                   /\ obs' = [NoObs EXCEPT
                                !.op = "listProcessesReply",
                                !.win = h.sender,
                                !.id = h.stage,
                                !.logged = h.stage # "done",
                                !.reply = SafeSend(h.sender),
                                !.processes = h.processes]
              ELSE /\ suspended' = [suspended EXCEPT ![i] = h]
                   /\ obs' = NoObs
  /\ UNCHANGED << windows, parentState, issueReporterWindow, issueReporterParentWindow,
                  processExplorerWindow, processExplorerParentWindow, browserWindow,
                  browserParentWindow, ipcMain >>

\* ------------------------------------------------------ what the user does
\* The user closes child window w: its 'close' event.
ChildClose(w) ==
  /\ Idle
  /\ w \in 1..Len(windows)
  /\ windows[w].state = "open"
  /\ Commit(EmitClose(Cur, w))
  /\ obs' = NoObs
  /\ UNCHANGED << parentState, suspended >>

\* The teardown of child window w ends: its 'closed' event.
ChildClosed(w) ==
  /\ Idle
  /\ w \in 1..Len(windows)
  /\ windows[w].state = "closing"
  /\ Commit(EmitClosed(Cur, w))
  /\ obs' = NoObs
  /\ UNCHANGED << parentState, suspended >>

\* Parent window p is asked to close: its 'close' event. The workbench may
\* veto the close (unsaved files), and the window then stays open.
ParentClose(p, veto) ==
  /\ Idle
  /\ parentState[p] = "open"
  /\ parentState' = [parentState EXCEPT ![p] = IF veto THEN "open" ELSE "closing"]
  /\ LET m == EmitParent(Cur, p, "close", 1) IN
       Commit(m) /\ obs' = [CloseObs("parentClose", m) EXCEPT !.to = p]
  /\ UNCHANGED suspended

\* Parent window p is gone: its 'closed' event.
ParentClosed(p) ==
  /\ Idle
  /\ parentState[p] = "closing"
  /\ parentState' = [parentState EXCEPT ![p] = "destroyed"]
  /\ LET m == EmitParent(Cur, p, "closed", 1) IN
       Commit(m) /\ obs' = [CloseObs("parentClosed", m) EXCEPT !.to = p]
  /\ UNCHANGED suspended

\* ------------------------------------------------------------ specification
Init ==
  /\ windows = <<>>
  /\ parentState = [p \in Parents |-> "open"]
  /\ issueReporterWindow = NoWin
  /\ issueReporterParentWindow = Null
  /\ processExplorerWindow = NoWin
  /\ processExplorerParentWindow = Null
  /\ browserWindow = NoWin
  /\ browserParentWindow = Null
  /\ ipcMain = [ch \in Channels |-> IF ch \in ServiceChannels THEN << ServiceListener >> ELSE <<>>]
  /\ suspended = <<>>
  /\ obs = NoObs

\* What the last handler sent has gone out.
Quiesce ==
  /\ ~Idle
  /\ obs' = NoObs
  /\ UNCHANGED << windows, parentState, issueReporterWindow, issueReporterParentWindow,
                  processExplorerWindow, processExplorerParentWindow, browserWindow,
                  browserParentWindow, ipcMain, suspended >>

Next ==
  \/ \E f \in FocusedWindows, min \in BOOLEAN : OpenReporter(f, min, MaxWindows)
  \/ \E f \in FocusedWindows, min \in BOOLEAN : OpenProcessExplorer(f, min, MaxWindows)
  \/ \E f \in FocusedWindows, args \in BrowserArgs, min \in BOOLEAN :
       OpenBrowserWindow(f, args, min, MaxWindows)
  \/ \E w \in DOMAIN windows : ReadyToShow(w)
  \/ \E w \in DOMAIN windows : TimerFires(w)
  \/ \E from \in FromValues : WorkbenchCommand(from)
  \/ \E ch \in Channels : BridgeMessage(ch)
  \/ CloseIssueReporter
  \/ CloseProcessExplorer
  \/ CloseBrowserWindow
  \/ ConfirmCloseRequest
  \/ \E yes \in BOOLEAN : ConfirmCloseReply(yes)
  \/ \E sender \in DOMAIN windows : ClipboardRequest(sender)
  \/ \E ok \in BOOLEAN : ClipboardReply(ok)
  \/ \E sender \in DOMAIN windows : ListProcessesRequest(sender)
  \/ \E ok \in BOOLEAN, remote \in RemoteDiagnostics : ListProcessesResume(ok, remote)
  \/ \E w \in DOMAIN windows : ChildClose(w)
  \/ \E w \in DOMAIN windows : ChildClosed(w)
  \/ \E p \in Parents, veto \in BOOLEAN : ParentClose(p, veto)
  \/ \E p \in Parents : ParentClosed(p)
  \/ Quiesce

\* The service with every handler.
Spec == Init /\ [][Next]_vars

\* The runs in which only the issue reporter and the process explorer are used.
NextDiag ==
  \/ \E f \in FocusedWindows, min \in BOOLEAN : OpenReporter(f, min, MaxWindows)
  \/ \E f \in FocusedWindows, min \in BOOLEAN : OpenProcessExplorer(f, min, MaxWindows)
  \/ \E from \in FromValues : WorkbenchCommand(from)
  \/ CloseIssueReporter
  \/ CloseProcessExplorer
  \/ ConfirmCloseRequest
  \/ \E yes \in BOOLEAN : ConfirmCloseReply(yes)
  \/ \E w \in DOMAIN windows : ChildClose(w)
  \/ \E w \in DOMAIN windows : ChildClosed(w)
  \/ \E p \in Parents, veto \in BOOLEAN : ParentClose(p, veto)
  \/ \E p \in Parents : ParentClosed(p)
  \/ Quiesce

SpecDiag == Init /\ [][NextDiag]_vars

\* The runs in which only the bridge window is used, with every config.
NextBrowser ==
  \/ \E f \in FocusedWindows, args \in BrowserArgs, min \in BOOLEAN :
       OpenBrowserWindow(f, args, min, MaxBrowserWindows)
  \/ \E w \in DOMAIN windows : ReadyToShow(w)
  \/ \E w \in DOMAIN windows : TimerFires(w)
  \/ \E from \in FromValues : WorkbenchCommand(from)
  \/ \E ch \in Channels : BridgeMessage(ch)
  \/ CloseBrowserWindow
  \/ \E w \in DOMAIN windows : ChildClose(w)
  \/ \E w \in DOMAIN windows : ChildClosed(w)
  \/ \E p \in Parents, veto \in BOOLEAN : ParentClose(p, veto)
  \/ \E p \in Parents : ParentClosed(p)
  \/ Quiesce

SpecBrowser == Init /\ [][NextBrowser]_vars

\* The runs in which the bridge window is opened again and again with one
\* config (no events), long enough for three sessions to overlap.
RaceArgs == { << Config("other", <<>>) >> }

NextRace ==
  \/ \E f \in FocusedWindows, args \in RaceArgs, min \in BOOLEAN :
       OpenBrowserWindow(f, args, min, MaxRaceWindows)
  \/ CloseBrowserWindow
  \/ \E w \in DOMAIN windows : ChildClose(w)
  \/ \E w \in DOMAIN windows : ChildClosed(w)
  \/ \E p \in Parents, veto \in BOOLEAN : ParentClose(p, veto)
  \/ \E p \in Parents : ParentClosed(p)
  \/ Quiesce

SpecRace == Init /\ [][NextRace]_vars

\* The runs in which the issue reporter and the bridge window share parents.
NextShared ==
  \/ \E f \in FocusedWindows, min \in BOOLEAN : OpenReporter(f, min, MaxWindows)
  \/ \E f \in FocusedWindows, args \in BrowserArgs, min \in BOOLEAN :
       OpenBrowserWindow(f, args, min, MaxWindows)
  \/ CloseIssueReporter
  \/ CloseBrowserWindow
  \/ \E w \in DOMAIN windows : ChildClose(w)
  \/ \E w \in DOMAIN windows : ChildClosed(w)
  \/ \E p \in Parents, veto \in BOOLEAN : ParentClose(p, veto)
  \/ \E p \in Parents : ParentClosed(p)
  \/ Quiesce

SpecShared == Init /\ [][NextShared]_vars

\* The runs in which the issue reporter and the process explorer are opened
\* and closed, and nothing else happens.
NextSessions ==
  \/ \E f \in FocusedWindows, min \in BOOLEAN : OpenReporter(f, min, MaxSessionWindows)
  \/ \E f \in FocusedWindows, min \in BOOLEAN : OpenProcessExplorer(f, min, MaxSessionWindows)
  \/ CloseIssueReporter
  \/ CloseProcessExplorer
  \/ \E w \in DOMAIN windows : ChildClose(w)
  \/ \E w \in DOMAIN windows : ChildClosed(w)
  \/ \E p \in Parents, veto \in BOOLEAN : ParentClose(p, veto)
  \/ \E p \in Parents : ParentClosed(p)
  \/ Quiesce

SpecSessions == Init /\ [][NextSessions]_vars

\* The runs in which the bridge window is opened without events, under each
\* kind of winId, and shown.
NoEventsArgs == { << Config(id, <<>>) >> : id \in {"certificate", "addEmulator", "other"} }

NextNoEvents ==
  \/ \E f \in FocusedWindows, args \in NoEventsArgs, min \in BOOLEAN :
       OpenBrowserWindow(f, args, min, MaxNoEventsWindows)
  \/ \E w \in DOMAIN windows : ReadyToShow(w)
  \/ \E w \in DOMAIN windows : TimerFires(w)
  \/ CloseBrowserWindow
  \/ \E w \in DOMAIN windows : ChildClose(w)
  \/ \E w \in DOMAIN windows : ChildClosed(w)
  \/ \E p \in Parents, veto \in BOOLEAN : ParentClose(p, veto)
  \/ \E p \in Parents : ParentClosed(p)
  \/ Quiesce

SpecNoEvents == Init /\ [][NextNoEvents]_vars

\* The runs in which the issue reporter is used together with its two dialogs.
NextDialogs ==
  \/ \E f \in FocusedWindows, min \in BOOLEAN : OpenReporter(f, min, MaxWindows)
  \/ CloseIssueReporter
  \/ ConfirmCloseRequest
  \/ \E yes \in BOOLEAN : ConfirmCloseReply(yes)
  \/ \E sender \in DOMAIN windows : ClipboardRequest(sender)
  \/ \E ok \in BOOLEAN : ClipboardReply(ok)
  \/ \E w \in DOMAIN windows : ChildClose(w)
  \/ \E w \in DOMAIN windows : ChildClosed(w)
  \/ \E p \in Parents, veto \in BOOLEAN : ParentClose(p, veto)
  \/ \E p \in Parents : ParentClosed(p)
  \/ Quiesce

SpecDialogs == Init /\ [][NextDialogs]_vars

\* ------------------------------------- the two diagnostic roles, side by side
\* The same event given to the issue reporter and to the process explorer in
\* one step, so that the two sessions can be compared after every event.
\* Sessions are created in pairs: window 2k-1 is the k-th issue reporter,
\* window 2k the k-th process explorer.
TwinOpen(f) ==
  /\ Idle
  /\ Len(windows) + 2 <= 2 * MaxTwinPairs
  /\ Commit(OpenProcessExplorerImpl(OpenReporterImpl(Cur, f), f))
  /\ obs' = [NoObs EXCEPT !.op = "twinOpen"]
  /\ UNCHANGED << parentState, suspended >>

\* The user closes the window each role's slot holds.
TwinChildClose ==
  /\ Idle
  /\ issueReporterWindow # NoWin \/ processExplorerWindow # NoWin
  /\ LET m1 == IF issueReporterWindow # NoWin /\ windows[issueReporterWindow].state = "open"
                 THEN EmitClose(Cur, issueReporterWindow) ELSE Cur
         m2 == IF processExplorerWindow # NoWin /\ windows[processExplorerWindow].state = "open"
                 THEN EmitClose(m1, processExplorerWindow) ELSE m1 IN
       Commit(m2)
  /\ obs' = [NoObs EXCEPT !.op = "twinChildClose"]
  /\ UNCHANGED << parentState, suspended >>

\* The teardown of the windows of the k-th pair ends.
TwinChildClosed(k) ==
  /\ Idle
  /\ 2 * k \in DOMAIN windows
  /\ windows[2 * k - 1].state = "closing" \/ windows[2 * k].state = "closing"
  /\ LET m1 == IF windows[2 * k - 1].state = "closing"
                 THEN EmitClosed(Cur, 2 * k - 1) ELSE Cur
         m2 == IF windows[2 * k].state = "closing" THEN EmitClosed(m1, 2 * k) ELSE m1 IN
       Commit(m2)
  /\ obs' = [NoObs EXCEPT !.op = "twinChildClosed"]
  /\ UNCHANGED << parentState, suspended >>

\* 'vscode:closeIssueReporter' and 'vscode:closeProcessExplorer', together.
TwinCloseCommand ==
  /\ Idle
  /\ issueReporterWindow # NoWin \/ processExplorerWindow # NoWin
  /\ Commit(CloseCommandImpl(CloseCommandImpl(Cur, issueReporterWindow), processExplorerWindow))
  /\ obs' = [NoObs EXCEPT !.op = "twinCloseCommand"]
  /\ UNCHANGED << parentState, suspended >>

NextTwins ==
  \/ \E f \in FocusedWindows : TwinOpen(f)
  \/ TwinChildClose
  \/ \E k \in 1..MaxTwinPairs : TwinChildClosed(k)
  \/ TwinCloseCommand
  \/ \E p \in Parents, veto \in BOOLEAN : ParentClose(p, veto)
  \/ \E p \in Parents : ParentClosed(p)
  \/ Quiesce

SpecTwins == Init /\ [][NextTwins]_vars

\* The runs in which the process explorer is used and lists processes.
NextListProcesses ==
  \/ \E f \in FocusedWindows, min \in BOOLEAN : OpenProcessExplorer(f, min, MaxListWindows)
  \/ \E sender \in DOMAIN windows : ListProcessesRequest(sender)
  \/ \E ok \in BOOLEAN, remote \in RemoteDiagnostics : ListProcessesResume(ok, remote)
  \/ CloseProcessExplorer
  \/ \E w \in DOMAIN windows : ChildClose(w)
  \/ \E w \in DOMAIN windows : ChildClosed(w)
  \/ \E p \in Parents, veto \in BOOLEAN : ParentClose(p, veto)
  \/ \E p \in Parents : ParentClosed(p)
  \/ Quiesce

SpecListProcesses == Init /\ [][NextListProcesses]_vars

\* ---------------------------------------------------- placement, on its own
\* The displays screen.getAllDisplays() returns: a full-HD display at the
\* origin, displays of odd size beside it, and a display that reports no
\* bounds (X11).
DisplayFullHD == Rect(0, 0, 1920, 1080)
DisplayRight == Rect(1920, 0, 801, 601)
DisplayLeft == Rect(0 - 1367, 13, 1367, 769)
DisplayNoBounds == Rect(0, 0, 0, 0)

DisplayLists ==
  { << DisplayFullHD >>, << DisplayRight >>, << DisplayLeft >>, << DisplayNoBounds >>,
    << DisplayFullHD, DisplayRight >>, << DisplayLeft, DisplayFullHD >>,
    << DisplayLeft, DisplayFullHD, DisplayRight >> }

CursorPoints == { Point(100, 100), Point(2000, 50), Point(0 - 500, 900) }
ParentBoundsValues ==
  { Rect(50, 50, 1000, 700), Rect(1900, 0, 800, 600), Rect(0 - 1000, 100, 500, 500) }
\* 700 x 800 and 800 x 500 are the sizes the three call sites ask for.
RequestedWidths == { 0, 700, 800, 1921 }
RequestedHeights == { 0, 500, 800, 1081 }

\* A call of getWindowPosition.
GetWindowPosition(displays, isMacintosh, cursor, parentBounds, width, height) ==
  /\ Idle
  /\ obs' = [NoObs EXCEPT
               !.op = "getWindowPosition",
               !.position =
                 [ displays |-> displays, isMacintosh |-> isMacintosh, cursor |-> cursor,
                   parentBounds |-> parentBounds, width |-> width, height |-> height,
                   display |-> DisplayToUse(displays, isMacintosh, cursor, parentBounds),
                   state |-> GetWindowPositionImpl(displays, isMacintosh, cursor,
                                                   parentBounds, width, height) ]]
  /\ UNCHANGED << windows, parentState, issueReporterWindow, issueReporterParentWindow,
                  processExplorerWindow, processExplorerParentWindow, browserWindow,
                  browserParentWindow, ipcMain, suspended >>

NextPlacement ==
  \/ \E displays \in DisplayLists, isMacintosh \in BOOLEAN, cursor \in CursorPoints,
        parentBounds \in ParentBoundsValues, width \in RequestedWidths,
        height \in RequestedHeights :
       GetWindowPosition(displays, isMacintosh, cursor, parentBounds, width, height)
  \/ Quiesce

SpecPlacement == Init /\ [][NextPlacement]_vars

\* ------------------------------------------------------------------ claims
WindowsOf(role) == {w \in DOMAIN windows : windows[w].role = role}

\* A window the user can still see and use: its 'close' event has not come.
Alive(w) == windows[w].state = "open"

Slot(role) ==
  CASE role = IssueReporter -> issueReporterWindow
    [] role = ProcessExplorer -> processExplorerWindow
    [] OTHER -> browserWindow

\* No window of the role is left: none was opened, or each one is gone.
NoSession(role) ==
  /\ Slot(role) = NoWin
  /\ \A w \in WindowsOf(role) : windows[w].state = "destroyed"

\* C1: for every role, after any sequence of open requests, child and parent
\* close events, close commands and confirm-close replies, at most one window
\* of that role is alive.
AtMostOneWindowPerRole ==
  \A r \in Roles : Cardinality({w \in WindowsOf(r) : Alive(w)}) <= 1

\* C2: once the slot of the issue reporter or of the process explorer no
\* longer holds a session's window, whichever way it was nulled (the window's
\* 'close', the parent's close handler, the confirm-close 'yes' path), the
\* configuration channel of that session has been disposed.
ChannelDisposedWhenSlotNulled ==
  \A w \in WindowsOf(IssueReporter) \cup WindowsOf(ProcessExplorer) :
    Slot(windows[w].role) # w => windows[w].disposed

\* The step is the close event of the parent window of session w, the one its
\* role listens to: 'closed' for the issue reporter, 'close' for the process
\* explorer.
ParentCloseEventOf(w) ==
  LET p == windows[w].parent IN
  \/ /\ windows[w].role = IssueReporter
     /\ parentState[p] = "closing"
     /\ parentState'[p] = "destroyed"
  \/ /\ windows[w].role = ProcessExplorer
     /\ parentState[p] = "open"
     /\ obs'.op = "parentClose"
     /\ obs'.to = p

\* C3: whenever the parent window of a live issue-reporter or process-explorer
\* session closes, the child window is closed and then its configuration
\* channel is disposed, each exactly once.
ParentCloseClosesChildOnce ==
  [][\A w \in WindowsOf(IssueReporter) \cup WindowsOf(ProcessExplorer) :
       (Alive(w) /\ ParentCloseEventOf(w)) =>
         /\ windows'[w].state # "open"
         /\ windows'[w].log = << "close", "dispose" >>]_vars

\* C4: after a session of a role has ended, the role's slot does not hold the
\* window of that session any more, so that the next open request creates a
\* window; for the bridge role, whatever the shape of config['events'].
EndedSessionLeavesSlotNull ==
  \A r \in Roles : Slot(r) # NoWin => windows[Slot(r)].state # "destroyed"

\* C5: the pending result of a bridge session whose window has closed is
\* settled.
ClosedBridgeSessionIsSettled ==
  \A w \in WindowsOf(Browser) :
    windows[w].state = "destroyed" => windows[w].promise # "pending"

SecondBrowserOpenOnlyFocuses ==
  (obs.op = "openBrowserWindow" /\ \E w \in WindowsOf(Browser) \ {obs.created} : Alive(w)) =>
    /\ obs.created = NoWin
    /\ obs.request = "rejected"
    /\ obs.focused \in WindowsOf(Browser)
    /\ Alive(obs.focused)
    /\ obs.minimized => obs.restored

\* C8: a workbench command from "issueReporter" (or "processExplorer") routed
\* while no session of that role exists forwards nothing and raises nothing.
NoSessionDropsCommand ==
  (obs.op = "workbenchCommand" /\ obs.from \in {IssueReporter, ProcessExplorer}
     /\ NoSession(obs.from)) =>
    obs.outcome = "dropped"

\* C9: a workbench command whose role's parent window has closed is dropped
\* silently: nothing is sent to the closed window and no error is raised.
ClosedParentDropsCommand ==
  (obs.op = "workbenchCommand" /\ obs.to # Null /\ parentState[obs.to] = "destroyed") =>
    obs.outcome = "dropped"

KnownRoles == {IssueReporter, ProcessExplorer, "genericBridge"}

\* C10: a workbench command raises an error, and forwards nothing, exactly
\* when its `from` is none of issueReporter, processExplorer, genericBridge.
OnlyUnknownSourceRaises ==
  obs.op = "workbenchCommand" =>
    IF obs.from \in KnownRoles
      THEN obs.outcome \in {"sent", "dropped"}
      ELSE obs.outcome = "unexpectedSource" /\ obs.to = Null

\* C11: for a display of positive width and height and a non-negative
\* requested size, the rectangle getWindowPosition returns lies inside the
\* display's bounds; on a 1920 x 1080 display at (0,0), 700 x 800 is placed at
\* x 610, y 140 with width 700 and height 800.
PlacementInsideDisplay ==
  /\ GetWindowPositionImpl(<< DisplayFullHD >>, FALSE, Point(0, 0), Rect(0, 0, 0, 0), 700, 800)
       = WindowState(2 * 610, 2 * 140, 700, 800)
  /\ obs.op = "getWindowPosition" =>
       LET d == obs.position.display
           st == obs.position.state IN
       (d.width > 0 /\ d.height > 0) =>
         /\ st.x2 >= 2 * d.x
         /\ st.y2 >= 2 * d.y
         /\ st.x2 + 2 * st.width <= 2 * (d.x + d.width)
         /\ st.y2 + 2 * st.height <= 2 * (d.y + d.height)

\* C11, witness: a size wider and higher than the display it is placed on.
PlacementOfOversizedWindow ==
  /\ obs.op = "getWindowPosition"
  /\ obs.position.display.width > 0
  /\ obs.position.display.height > 0
  /\ obs.position.width > obs.position.display.width
  /\ obs.position.height > obs.position.display.height

\* C12: with exactly one display, getWindowPosition returns the same rectangle
\* for every parent-window position, every pointer position and either
\* platform, and that rectangle has equal margins left and right, top and
\* bottom, on that display.
SingleDisplayIgnoresParent ==
  (obs.op = "getWindowPosition" /\ Len(obs.position.displays) = 1) =>
    LET d == obs.position.displays[1]
        st == obs.position.state IN
    /\ \A mac \in BOOLEAN, c \in CursorPoints, pb \in ParentBoundsValues :
         GetWindowPositionImpl(obs.position.displays, mac, c, pb,
                               obs.position.width, obs.position.height) = st
    /\ st.x2 - 2 * d.x = 2 * (d.x + d.width) - (st.x2 + 2 * st.width)
    /\ st.y2 - 2 * d.y = 2 * (d.y + d.height) - (st.y2 + 2 * st.height)

\* C12, witness: one display, and a parent window that is nowhere on it.
SingleDisplayParentElsewhere ==
  /\ obs.op = "getWindowPosition"
  /\ Len(obs.position.displays) = 1
  /\ obs.position.displays[1].width > 0
  /\ Overlap(obs.position.displays[1], obs.position.parentBounds) = 0

\* C13, as stated: a list-processes request always ends in a reply, and when
\* the remote diagnostics fail after the local tree was gathered the reply
\* holds the local tree and the failure is logged.
ListProcessesAlwaysReplies ==
  obs.op = "listProcessesReply" =>
    /\ obs.reply = "sent"
    /\ obs.id = "failedRemote" => (obs.processes = << "Local" >> /\ obs.logged)

\* C13, amended: a list-processes request ends without raising, in a reply to
\* its sender unless that sender has been destroyed in the meantime (then
\* nothing is sent); the reply holds what was gathered before the first
\* failure (the local tree when the remote diagnostics fail), a failure is
\* logged, and a run without failure logs nothing.
ListProcessesRepliesToLiveSender ==
  obs.op = "listProcessesReply" =>
    /\ obs.outcome = "none"
    /\ obs.reply = (IF windows[obs.win].state = "destroyed" THEN "skipped" ELSE "sent")
    /\ obs.id = "failedRemote" => (obs.processes = << "Local" >> /\ obs.logged)
    /\ obs.id \in {"failedMainPid", "failedTree"} => (obs.processes = <<>> /\ obs.logged)
    /\ obs.id = "done" => (~obs.logged /\ Len(obs.processes) >= 1 /\ obs.processes[1] = "Local")

\* C13, witness: the remote diagnostics failed after the local tree was
\* gathered, and the reply went to a live sender.
ListProcessesRemoteFailed ==
  /\ obs.op = "listProcessesReply"
  /\ obs.id = "failedRemote"
  /\ obs.reply = "sent"
  /\ obs.processes = << "Local" >>

\* C14: for every role, an open request that finds the role's window
\* minimized restores it, focuses it and creates nothing.
MinimizedWindowRestoredOnOpen ==
  (obs.op \in {"openReporter", "openProcessExplorer", "openBrowserWindow"} /\ obs.minimized) =>
    /\ obs.restored
    /\ obs.focused # NoWin
    /\ obs.created = NoWin

\* C15: an openReporter or openProcessExplorer call made while the role's
\* slot is null and no window is focused creates no window (hence no
\* configuration channel and no listeners), registers nothing on ipcMain,
\* focuses nothing, raises nothing and leaves the slot null.
OpenWithoutFocusDeclines ==
  [][/\ (obs'.op = "openReporter" /\ issueReporterWindow = NoWin
           /\ issueReporterParentWindow' = Null) =>
          /\ windows' = windows
          /\ ipcMain' = ipcMain
          /\ issueReporterWindow' = NoWin
          /\ obs'.created = NoWin
          /\ obs'.focused = NoWin
          /\ obs'.outcome = "none"
     /\ (obs'.op = "openProcessExplorer" /\ processExplorerWindow = NoWin
           /\ processExplorerParentWindow' = Null) =>
          /\ windows' = windows
          /\ ipcMain' = ipcMain
          /\ processExplorerWindow' = NoWin
          /\ obs'.created = NoWin
          /\ obs'.focused = NoWin
          /\ obs'.outcome = "none"]_vars

\* C15, witness: after an issue reporter session has come and gone,
\* openReporter was called with no window focused, and declined.
OpenReporterDeclined ==
  /\ obs.op = "openReporter"
  /\ obs.created = NoWin
  /\ obs.focused = NoWin
  /\ issueReporterWindow = NoWin
  /\ issueReporterParentWindow = Null
  /\ WindowsOf(IssueReporter) # {}

\* C16: the result of a bridge open request is pending only while the window
\* of that request is there: a request that creates no window is settled at
\* once, and no session whose window is gone is left pending.
PendingOnlyWhileWindowAlive ==
  /\ (obs.op = "openBrowserWindow" /\ obs.created = NoWin) => obs.request = "rejected"
  /\ \A w \in WindowsOf(Browser) :
       windows[w].promise = "pending" => windows[w].state # "destroyed"

\* A bridge session opened without events: the branch of lines 285-290.
NoEvents(w) == windows[w].role = Browser /\ windows[w].closedListeners = << "" >>

ResumedDialogHandlerIsSafe ==
  /\ obs.op = "confirmCloseReply" =>
       /\ obs.outcome = "none"
       /\ obs.destroyed \in {NoWin, obs.win}
  /\ obs.op = "clipboardReply" =>
       (obs.reply = "sent" => windows[obs.win].state # "destroyed")

TwinsCorrespond ==
  /\ (issueReporterWindow = NoWin) <=> (processExplorerWindow = NoWin)
  /\ issueReporterWindow # NoWin => processExplorerWindow = issueReporterWindow + 1
  /\ \A k \in 1..MaxTwinPairs :
       2 * k \in DOMAIN windows =>
         /\ windows[2 * k - 1].state = windows[2 * k].state
         /\ windows[2 * k - 1].disposed = windows[2 * k].disposed

\* C21: for displays with integer bounds and an integer requested width and
\* height, the x, y, width and height getWindowPosition returns are all
\* integers: x and y are whole pixels (twice x and twice y are even), and the
\* width and the height are integers.
PlacementIsIntegral ==
  obs.op = "getWindowPosition" =>
    LET st == obs.position.state IN
    /\ st.x2 % 2 = 0
    /\ st.y2 % 2 = 0
    /\ st.width \in Int
    /\ st.height \in Int

\* C22: a close event of a parent window closes a live child session only
\* when that window is the parent of the session: when parent window p closes
\* (the 'close' or the 'closed' event), every live child window whose parent
\* is another window stays as it was (not closed, its configuration channel
\* not disposed, its promise not settled) and stays in its role's slot.
ParentCloseSparesOtherSessions ==
  [][\A p \in Parents :
       (obs'.op \in {"parentClose", "parentClosed"} /\ obs'.to = p) =>
         \A w \in DOMAIN windows :
           (Alive(w) /\ windows[w].parent # p) =>
             /\ windows'[w] = windows[w]
             /\ \A r \in Roles : Slot(r) = w => Slot(r)' = w]_vars

\* C23: opening and closing a bridge session changes the listeners of that
\* session only: whatever channel names the caller supplies, every channel the
\* service listens on still has the handler registerListeners installed, and
\* no listener a session installed is left once its window is gone.
BridgeSessionKeepsServiceListeners ==
  /\ \A ch \in ServiceChannels : Installed(ch)
  /\ \A ch \in Channels : \A i \in 1..Len(ipcMain[ch]) :
       ipcMain[ch][i].kind = "bridge" =>
         windows[ipcMain[ch][i].sess].state # "destroyed"

====
